---- MODULE Spec2Model ----
(***************************************************************************)
(* Verification model of the VectorDB-Benchmark phase-1 embedding core:    *)
(*   - AsyncXinferenceClient (bounded-concurrency dispatcher, batch-size   *)
(*     tuner),                                                             *)
(*   - AsyncInferenceBenchmark / InferenceBenchmark (orchestrator),        *)
(*   - VectorCache (chunked vector store).                                 *)
(* One specification per component; all share the variables below.         *)
(***************************************************************************)
EXTENDS Integers, Sequences, FiniteSets, TLC

\* ------------------------------------------------------------------ bounds
MaxTexts == 3          \* longest all_texts handed to embed_concurrent
MaxBatch == 2          \* largest batch_size handed to embed_concurrent
MaxConcurrent == 2     \* largest max_concurrent_requests
MaxStart == 2          \* largest start_size handed to find_optimal_batch_size
MaxMaxSize == 4        \* largest max_size handed to find_optimal_batch_size
MaxSample == 4         \* longest texts handed to find_optimal_batch_size
MaxIterations == 1     \* test_iterations of a measuring run
MaxLatency == 11
MaxModels == 2         \* longest list of models handed to a serial run
MaxDocs == 3           \* largest document corpus of a serial run
MaxBenchLatency == 2   \* longest request latency during a serial run
ProbeWarmup == 1       \* warm-up requests of the latency probe (scaled down)
ProbeSamples == 1      \* timed requests of the latency probe (scaled down)
MaxLines == 4           \* longest collection file, in lines
MaxSeed == 1            \* largest seed handed to sample_documents
MaxTotal == 3           \* largest total_vectors of a cache under test
MaxWrites == 2          \* most write_batch calls made on a cache under test
MaxWriteLen == 2        \* most rows handed to one write_batch call
MaxOps == 3             \* most calls made on a handle under test
MaxTested == 3          \* most measured pairs kept in the record of a search
MaxWait == 3            \* latency of a slow request (a fast one takes 1)

\* ------------------------------------------------------ program constants
SweepMinSize == 8      \* smallest batch size kept around the tuned optimum
SweepMaxSize == 2048   \* largest one, and max_size of the tuning search
MinLength == 10        \* min_length default of load_collection_iter
MaxLength == 512       \* max_length default of load_collection_iter
IdWidth == 64          \* bytes of an entry of the "ids" dataset (dtype S64)
       \* longest request latency, in clock ticks

VARIABLES
  \* --- AsyncXinferenceClient / embed_concurrent -------------------------
  all_texts,                \* embed_concurrent argument: sequence of texts
  batch_size,               \* embed_concurrent argument
  show_progress,            \* embed_concurrent argument
  max_concurrent_requests,  \* client.max_concurrent_requests
  semaphore,                \* asyncio.Semaphore._value (free permits)
  task_pc,                  \* per batch task: "pending" | "inflight" | "done"
  task_result,              \* per batch task: value returned by embed_batch_async
  task_resp,                \* per batch task: response the endpoint gave
  completed,                \* batch indices in completion order (as_completed)
  acquires,                 \* per batch task: number of semaphore acquisitions
  releases,                 \* per batch task: number of semaphore releases
  ec_pc,                    \* embed_concurrent: "init" | "awaiting" | "returned" | "raised"
  ec_out,                   \* value returned by embed_concurrent
  \* --- AsyncXinferenceClient / find_optimal_batch_size -------------------
  texts,                    \* find_optimal_batch_size argument: sample texts
  start_size,               \* find_optimal_batch_size argument
  max_size,                 \* find_optimal_batch_size argument
  test_iterations,          \* find_optimal_batch_size argument
  tn_pc,                    \* "init" | "loop" | "trials" | "returned"
  tn_batch_size,            \* local batch_size of find_optimal_batch_size
  best_batch_size,          \* local of find_optimal_batch_size
  best_throughput,          \* local of find_optimal_batch_size
  previous_throughput,      \* local of find_optimal_batch_size
  latencies,                \* local of test_throughput_async
  trials_ok,                \* trials of the current size that returned vectors
  tested,                   \* the first MaxTested (batch_size, throughput) pairs measured
  \* --- AsyncInferenceBenchmark / InferenceBenchmark ----------------------
  models,                   \* run_serial_benchmark argument: model configs
  documents,                \* run_serial_benchmark argument: [id, text] records
  auto_tune_batch_size,     \* run_serial_benchmark_async argument
  async_mode,               \* TRUE: AsyncInferenceBenchmark, FALSE: InferenceBenchmark
  run_pc,                   \* "idle" | "running" | "finished" | "raised"
  bm_i,                     \* index of the model being benchmarked
  bm_pc,                    \* position inside benchmark_model
  model_state,              \* per model: "Queued" | phase | "Done"
  probe_count,              \* requests issued by the latency probe
  batch_sizes_to_test,      \* local of benchmark_model
  throughput_metrics,       \* local of benchmark_model: measured sizes
  sweep_k,                  \* position in batch_sizes_to_test
  optimal_batch_size,       \* local of benchmark_model
  cache,                    \* per model: the VectorCache file of its run
  gen_k,                    \* index of the batch being generated
  gen_failed,               \* batches of the generation that returned None
  results,                  \* self.results
  persisted,                \* "models" list of the results file on disk
  \* --- DatasetLoader / MSMARCOLoader: sample_documents --------------------
  source_exists,            \* collection_file.exists()
  corpus,                   \* the lines of collection.tsv
  num_samples,              \* sample_documents argument
  seed,                     \* sample_documents argument
  rng,                      \* state of the module-level random generator
  drawn,                    \* values the generator has produced, by state
  sampled,                  \* local of sample_documents (the reservoir)
  sm_i,                     \* enumerate index of the sampling loop
  sm_pc,                    \* "idle" | "init" | "loop" | "returned" | "raised"
  sm_out,                   \* value returned by sample_documents
  sm_run,                   \* number of the call under way (1 or 2)
  sm_first,                 \* value returned by the first call
  \* --- VectorCache ----------------------------------------------------------
  vc,                       \* a VectorCache: handle state and stored datasets
  vc_log,                   \* the write_batch calls made on it, in call order
  vc_last,                  \* the last call made on it and how it ended
  vc_ops                    \* number of calls made on it

varsEmbed == << all_texts, batch_size, show_progress, max_concurrent_requests,
                semaphore, task_pc, task_result, task_resp, completed,
                acquires, releases, ec_pc, ec_out >>

varsTuner == << texts, start_size, max_size, test_iterations, tn_pc,
                tn_batch_size, best_batch_size, best_throughput,
                previous_throughput, latencies, trials_ok, tested >>

varsBench == << models, documents, auto_tune_batch_size, async_mode, run_pc,
                bm_i, bm_pc, model_state, probe_count, batch_sizes_to_test,
                throughput_metrics, sweep_k, optimal_batch_size, cache,
                gen_k, gen_failed, results, persisted >>

varsSampler == << source_exists, corpus, num_samples, seed, rng, drawn,
                  sampled, sm_i, sm_pc, sm_out, sm_run, sm_first >>

varsCache == << vc, vc_log, vc_last, vc_ops >>

vars == << varsEmbed, varsTuner, varsBench, varsSampler, varsCache >>

\* ------------------------------------------------------- values and helpers
\* Optional[np.ndarray]: None, or an array given by its rows.
None == [isNone |-> TRUE, rows |-> << >>]
Array(rows) == [isNone |-> FALSE, rows |-> rows]

\* The vector the endpoint computes for text t (texts are numbered, vectors
\* are identified by the text they embed).
Embedding(t) == 100 + t

\* The single zero-width row numpy makes of an empty 1-D array
\* (np.atleast_2d(np.array([])) has shape (1, 0)).
EmptyRow == 0

Min(a, b) == IF a < b THEN a ELSE b

\* s[lo:hi] of Python for a 1-based TLA+ sequence holding s[0], s[1], ...
Slice(s, lo, hi) == SubSeq(s, lo + 1, Min(hi, Len(s)))

\* len(range(0, n, bs))
NumBatches(n, bs) == (n + bs - 1) \div bs

\* batches[j-1] of embed_concurrent: all_texts[i:i+batch_size], i = (j-1)*bs
Batch(ts, bs, j) == Slice(ts, (j - 1) * bs, j * bs)

\* What the endpoint may answer to a request carrying n texts.  "ok" is a
\* 2xx response whose data list carries count items (the embeddings of the
\* first count texts); the others are the failures of the try block.
Responses(n) ==
  [kind : {"ok"}, count : 0..n]
    \cup [kind : {"http_error", "timeout", "parse_error"}, count : {0}]

NoResponse == [kind |-> "none", count |-> 0]

\* The answers that matter to a timed trial: every embedding, or a failure.
TrialResponses(n) ==
  {[kind |-> "ok", count |-> n], [kind |-> "timeout", count |-> 0]}

\* Value returned by embed_batch_async for a request with these texts and
\* this response (lines 154-165).
EmbedBatchResult(ts, resp) ==
  IF resp.kind = "ok"
    THEN Array([k \in 1..resp.count |-> Embedding(ts[k])])
    ELSE None

\* Mutant: a semaphore that never blocks.
SemaphoreNeverLocked(value) == FALSE

\* asyncio.Semaphore: acquire() proceeds only while the value is positive.
SemaphoreLocked(value) == value <= 0

\* Mutant: the permit is released on the success path only.
SemaphoreAfterExitLeaky(value, resp) ==
  IF resp.kind = "ok" THEN value + 1 ELSE value

\* async with self.semaphore: __aexit__ releases the permit whatever the
\* outcome of the body.
SemaphoreAfterExit(value, resp) == value + 1

RECURSIVE Concat(_)
Concat(seqs) ==
  IF seqs = << >> THEN << >> ELSE Head(seqs) \o Concat(Tail(seqs))

\* np.atleast_2d of an array: an empty 1-D array becomes one zero-width row.
AtLeast2D(a) == IF a.rows = << >> THEN << EmptyRow >> ELSE a.rows

\* np.vstack raises when the rows do not all have the same width.
VStackRaises(arrays) ==
  LET rows == Concat([k \in 1..Len(arrays) |-> AtLeast2D(arrays[k])])
  IN  \E p, q \in 1..Len(rows) : rows[p] = EmptyRow /\ rows[q] # EmptyRow

VStack(arrays) ==
  Array(Concat([k \in 1..Len(arrays) |-> AtLeast2D(arrays[k])]))

\* results of embed_concurrent: completion order under as_completed
\* (show_progress), task order under gather.
CollectResults(progress, rs, order) ==
  IF progress
    THEN [k \in 1..Len(order) |-> rs[order[k]]]
    ELSE [k \in 1..Len(rs) |-> rs[k]]

\* Mutant: only raised exceptions count as failures; embed_batch_async
\* never raises, so no batch is ever found failed.
FailedBatchesExceptionsOnly(rs) == {}

\* failed_batches of embed_concurrent (lines 237-247).
FailedBatches(rs) == {k \in 1..Len(rs) : rs[k].isNone}

\* valid_results of embed_concurrent (lines 238-247).
IsArray(r) == ~r.isNone
ValidResults(rs) == SelectSeq(rs, IsArray)

\* ------------------------------------------------ embed_concurrent actions
NB == NumBatches(Len(all_texts), batch_size)

\* No serial benchmark run under way.
IdleBench ==
  /\ models = << >>
  /\ documents = << >>
  /\ auto_tune_batch_size = FALSE
  /\ async_mode = TRUE
  /\ run_pc = "idle"
  /\ bm_i = 0
  /\ bm_pc = "idle"
  /\ model_state = << >>
  /\ probe_count = 0
  /\ batch_sizes_to_test = << >>
  /\ throughput_metrics = << >>
  /\ sweep_k = 0
  /\ optimal_batch_size = 0
  /\ cache = << >>
  /\ gen_k = 0
  /\ gen_failed = {}
  /\ results = << >>
  /\ persisted = << >>

\* The generator before random.seed is called by the sampler.
Unseeded == [seed |-> 0, calls |-> 0]

\* No call of sample_documents under way.
IdleSampler ==
  /\ source_exists = TRUE
  /\ corpus = << >>
  /\ num_samples = 0
  /\ seed = 0
  /\ rng = Unseeded
  /\ drawn = << >>
  /\ sampled = << >>
  /\ sm_i = 0
  /\ sm_pc = "idle"
  /\ sm_out = << >>
  /\ sm_run = 0
  /\ sm_first = << >>

\* No VectorCache under test.
NoCall == [op |-> "none", was_open |-> FALSE, raised |-> FALSE,
           value |-> << >>]

IdleCache ==
  /\ vc = [created |-> FALSE, open |-> FALSE, mode |-> "w",
           attrs |-> << >>, vectors |-> << >>, ids |-> << >>]
  /\ vc_log = << >>
  /\ vc_last = NoCall
  /\ vc_ops = 0

\* The tuner before any call of find_optimal_batch_size.
IdleTuner ==
  /\ texts = << >>
  /\ start_size = 1
  /\ max_size = 1
  /\ test_iterations = 1
  /\ tn_pc = "idle"
  /\ tn_batch_size = 0
  /\ best_batch_size = 0
  /\ best_throughput = [num |-> 0, den |-> 1]
  /\ previous_throughput = [num |-> 0, den |-> 1]
  /\ latencies = << >>
  /\ trials_ok = 0
  /\ tested = << >>

InitEmbed ==
  /\ IdleCache
  /\ IdleSampler
  /\ IdleTuner
  /\ IdleBench
  /\ \E n \in 0..MaxTexts : all_texts = [i \in 1..n |-> i]
  /\ batch_size \in 1..MaxBatch
  /\ show_progress \in BOOLEAN
  /\ max_concurrent_requests \in 1..MaxConcurrent
  /\ semaphore = max_concurrent_requests
  /\ task_pc = << >>
  /\ task_result = << >>
  /\ task_resp = << >>
  /\ completed = << >>
  /\ acquires = << >>
  /\ releases = << >>
  /\ ec_pc = "init"
  /\ ec_out = None

\* embed_concurrent up to its first await: the early return on an empty
\* input, the partition into batches, one embed_batch_async task per batch.
EcStart ==
  /\ ec_pc = "init"
  /\ IF all_texts = << >>
       THEN /\ ec_pc' = "returned"
            /\ ec_out' = None
            /\ UNCHANGED << task_pc, task_result, task_resp, acquires,
                            releases >>
       ELSE /\ ec_pc' = "awaiting"
            /\ task_pc' = [j \in 1..NB |-> "pending"]
            /\ task_result' = [j \in 1..NB |-> None]
            /\ task_resp' = [j \in 1..NB |-> NoResponse]
            /\ acquires' = [j \in 1..NB |-> 0]
            /\ releases' = [j \in 1..NB |-> 0]
            /\ UNCHANGED ec_out
  /\ UNCHANGED << all_texts, batch_size, show_progress,
                  max_concurrent_requests, semaphore, completed >>
  /\ UNCHANGED varsTuner
  /\ UNCHANGED varsBench
  /\ UNCHANGED << varsSampler, varsCache >>

\* embed_batch_async of batch j enters "async with self.semaphore" and posts
\* its request.
TaskAcquire(j) ==
  /\ ec_pc = "awaiting"
  /\ j \in 1..Len(task_pc)
  /\ task_pc[j] = "pending"
  /\ ~SemaphoreLocked(semaphore)
  /\ semaphore' = semaphore - 1
  /\ acquires' = [acquires EXCEPT ![j] = @ + 1]
  /\ task_pc' = [task_pc EXCEPT ![j] = "inflight"]
  /\ UNCHANGED << all_texts, batch_size, show_progress,
                  max_concurrent_requests, task_result, task_resp, completed,
                  releases, ec_pc, ec_out >>
  /\ UNCHANGED varsTuner
  /\ UNCHANGED varsBench
  /\ UNCHANGED << varsSampler, varsCache >>

\* The request of batch j completes with response resp: the body of the try
\* block finishes or raises, the permit is released, the task returns.
TaskComplete(j, resp) ==
  /\ ec_pc = "awaiting"
  /\ j \in 1..Len(task_pc)
  /\ task_pc[j] = "inflight"
  /\ task_result' = [task_result EXCEPT
        ![j] = EmbedBatchResult(Batch(all_texts, batch_size, j), resp)]
  /\ task_resp' = [task_resp EXCEPT ![j] = resp]
  /\ semaphore' = SemaphoreAfterExit(semaphore, resp)
  /\ releases' = [releases EXCEPT ![j] = @ + (semaphore' - semaphore)]
  /\ task_pc' = [task_pc EXCEPT ![j] = "done"]
  /\ completed' = Append(completed, j)
  /\ UNCHANGED << all_texts, batch_size, show_progress,
                  max_concurrent_requests, acquires, ec_pc, ec_out >>
  /\ UNCHANGED varsTuner
  /\ UNCHANGED varsBench
  /\ UNCHANGED << varsSampler, varsCache >>

\* All tasks are done: embed_concurrent checks for failed batches and stacks
\* the results (lines 236-257).
EcReturn ==
  /\ ec_pc = "awaiting"
  /\ \A j \in 1..Len(task_pc) : task_pc[j] = "done"
  /\ LET rs == CollectResults(show_progress, task_result, completed)
     IN  IF FailedBatches(rs) # {}
           THEN ec_pc' = "returned" /\ ec_out' = None
           ELSE IF VStackRaises(ValidResults(rs))
             THEN ec_pc' = "raised" /\ ec_out' = None
             ELSE ec_pc' = "returned" /\ ec_out' = VStack(ValidResults(rs))
  /\ UNCHANGED << all_texts, batch_size, show_progress,
                  max_concurrent_requests, semaphore, task_pc, task_result,
                  task_resp, completed, acquires, releases >>
  /\ UNCHANGED varsTuner
  /\ UNCHANGED varsBench
  /\ UNCHANGED << varsSampler, varsCache >>

NextEmbed ==
  \/ EcStart
  \/ \E j \in 1..MaxTexts : TaskAcquire(j)
  \/ \E j \in 1..MaxTexts :
       \E resp \in Responses(Len(Batch(all_texts, batch_size, j))) :
         TaskComplete(j, resp)
  \/ EcReturn

SpecEmbed == InitEmbed /\ [][NextEmbed]_vars

\* ------------------------------------------ find_optimal_batch_size model
\* Throughputs are exact fractions num/den (docs per clock tick).
Zero == [num |-> 0, den |-> 1]
Less(x, y) == x.num * y.den < y.num * x.den
SameValue(x, y) == x.num * y.den = y.num * x.den

RECURSIVE Sum(_)
Sum(s) == IF s = << >> THEN 0 ELSE Head(s) + Sum(Tail(s))

\* throughput = batch_size / np.mean(latencies)   (test_throughput_async)
Throughput(b, lats) == [num |-> b * Len(lats), den |-> Sum(lats)]

\* Mutant: the search stops only below 80% of the previous throughput.
DegradedAtEighty(throughput, previous) ==
  /\ Less(Zero, previous)
  /\ 10 * throughput.num * previous.den < 8 * previous.num * throughput.den

\* previous_throughput > 0 and throughput < previous_throughput * 0.9
Degraded(throughput, previous) ==
  /\ Less(Zero, previous)
  /\ 10 * throughput.num * previous.den < 9 * previous.num * throughput.den

\* Mutant: the best pair is overwritten by every measured size.
ImprovesAlways(throughput, best) == TRUE

\* throughput > best_throughput
Improves(throughput, best) == Less(best, throughput)

\* The embed client with no call of embed_concurrent under way.
IdleEmbed ==
  /\ all_texts = << >>
  /\ batch_size = 1
  /\ show_progress = FALSE
  /\ task_pc = << >>
  /\ task_result = << >>
  /\ task_resp = << >>
  /\ completed = << >>
  /\ acquires = << >>
  /\ releases = << >>
  /\ ec_pc = "idle"
  /\ ec_out = None

\* A call of find_optimal_batch_size with a start_size taken from sizes.
InitTunerFrom(sizes) ==
  /\ IdleCache
  /\ IdleSampler
  /\ IdleEmbed
  /\ IdleBench
  /\ max_concurrent_requests = MaxConcurrent
  /\ semaphore = max_concurrent_requests
  /\ \E n \in 0..MaxSample : texts = [i \in 1..n |-> i]
  /\ start_size \in sizes
  /\ max_size \in 1..MaxMaxSize
  /\ test_iterations \in {0, MaxIterations}
  /\ tn_pc = "init"
  /\ tn_batch_size = 0
  /\ best_batch_size = 0
  /\ best_throughput = Zero
  /\ previous_throughput = Zero
  /\ latencies = << >>
  /\ trials_ok = 0
  /\ tested = << >>

InitTuner == InitTunerFrom(1..MaxStart)

\* Lines 333-336: the locals of find_optimal_batch_size.
TunerStart ==
  /\ tn_pc = "init"
  /\ tn_batch_size' = start_size
  /\ best_batch_size' = start_size
  /\ best_throughput' = Zero
  /\ previous_throughput' = Zero
  /\ tn_pc' = "loop"
  /\ UNCHANGED << texts, start_size, max_size, test_iterations, latencies,
                  trials_ok, tested >>
  /\ UNCHANGED varsEmbed
  /\ UNCHANGED varsBench
  /\ UNCHANGED << varsSampler, varsCache >>

\* Mutant: the loop bounds the candidate by max_size only.
WithinMaxOnly(b) == b <= max_size

\* Line 338: batch_size <= max_size and batch_size <= len(texts)
WithinLimits(b) == b <= max_size /\ b <= Len(texts)

\* Line 338: the while condition; on exit the function returns
\* (best_batch_size, best_throughput).
TunerLoop ==
  /\ tn_pc = "loop"
  /\ IF WithinLimits(tn_batch_size)
       THEN tn_pc' = "trials"
       ELSE tn_pc' = "returned"
  /\ latencies' = << >>
  /\ trials_ok' = 0
  /\ UNCHANGED << texts, start_size, max_size, test_iterations,
                  tn_batch_size, best_batch_size, best_throughput,
                  previous_throughput, tested >>
  /\ UNCHANGED varsEmbed
  /\ UNCHANGED varsBench
  /\ UNCHANGED << varsSampler, varsCache >>

\* One iteration of test_throughput_async (lines 281-286): one
\* embed_batch_with_timing call on texts[:batch_size]; the latency is
\* kept whether or not the call returned vectors.
TunerTrial(resp, lat) ==
  /\ tn_pc = "trials"
  /\ Len(latencies) < test_iterations
  /\ ~SemaphoreLocked(semaphore)
  /\ latencies' = Append(latencies, lat)
  /\ trials_ok' = trials_ok
       + (IF EmbedBatchResult(Slice(texts, 0, tn_batch_size), resp).isNone
            THEN 0 ELSE 1)
  /\ UNCHANGED << texts, start_size, max_size, test_iterations, tn_pc,
                  tn_batch_size, best_batch_size, best_throughput,
                  previous_throughput, tested >>
  /\ UNCHANGED varsEmbed
  /\ UNCHANGED varsBench
  /\ UNCHANGED << varsSampler, varsCache >>

\* Lines 288-365: the metrics of the size just measured, the degradation
\* test, the update of the best pair and the doubling.  With no iteration
\* min(latencies) raises and the except branch leaves the loop.
TunerEvaluate ==
  /\ tn_pc = "trials"
  /\ Len(latencies) = test_iterations
  /\ IF latencies = << >>
       THEN /\ tn_pc' = "returned"
            /\ UNCHANGED << tn_batch_size, best_batch_size, best_throughput,
                            previous_throughput, tested >>
       ELSE LET throughput == Throughput(tn_batch_size, latencies)
            IN  /\ tested' = IF Len(tested) < MaxTested
                                THEN Append(tested,
                                       [size |-> tn_batch_size,
                                        throughput |-> throughput])
                                ELSE tested
                /\ IF Degraded(throughput, previous_throughput)
                     THEN /\ tn_pc' = "returned"
                          /\ UNCHANGED << tn_batch_size, best_batch_size,
                                          best_throughput,
                                          previous_throughput >>
                     ELSE /\ IF Improves(throughput, best_throughput)
                               THEN /\ best_throughput' = throughput
                                    /\ best_batch_size' = tn_batch_size
                               ELSE UNCHANGED << best_throughput,
                                                 best_batch_size >>
                          /\ previous_throughput' = throughput
                          /\ tn_batch_size' = tn_batch_size * 2
                          /\ tn_pc' = "loop"
  /\ UNCHANGED << texts, start_size, max_size, test_iterations, latencies,
                  trials_ok >>
  /\ UNCHANGED varsEmbed
  /\ UNCHANGED varsBench
  /\ UNCHANGED << varsSampler, varsCache >>

NextTuner ==
  \/ TunerStart
  \/ TunerLoop
  \/ \E resp \in TrialResponses(Len(Slice(texts, 0, tn_batch_size))) :
       \E lat \in 1..MaxLatency : TunerTrial(resp, lat)
  \/ TunerEvaluate

SpecTuner == InitTuner /\ [][NextTuner]_vars

\* The search called with any start_size >= 0.  The event loop keeps
\* running the coroutine and every request ends (with an answer or with
\* the client's timeout), so a step that can be taken is taken.
InitTunerAny == InitTunerFrom(0..MaxStart)

NextTunerAny ==
  \/ TunerStart
  \/ TunerLoop
  \/ \E resp \in TrialResponses(Len(Slice(texts, 0, tn_batch_size))) :
       \E lat \in {1, MaxWait} : TunerTrial(resp, lat)
  \/ TunerEvaluate

SpecTunerFair ==
  InitTunerAny /\ [][NextTunerAny]_vars /\ WF_vars(NextTunerAny)

\* ------------------------------------------------ serial benchmark model
\* Row of a cache dataset that no write_batch has touched.
Unwritten == 0

\* The document built for text t; its id is distinct from every vector.
\* An id string: the text-th id, bytes long once encoded as UTF-8.
IdString(text, bytes) == [text |-> text, bytes |-> bytes]

\* id_str.encode('utf-8') stored in an entry of dtype S64: the bytes beyond
\* the width of the entry are cut off.
EncodeId(id) == [id EXCEPT !.bytes = Min(@, IdWidth)]
EncodeIds(ids) == [q \in 1..Len(ids) |-> EncodeId(ids[q])]

\* id_b.decode('utf-8') of a stored entry.
DecodeId(b) == b

Document(t) == [id |-> IdString(200 + t, 8), text |-> t]

\* Entry of the "ids" dataset that no write_batch has touched: the empty
\* byte string.
NoId == IdString(0, 0)

\* A VectorCache file right after create(total_vectors = n).
NoCache ==
  [created |-> FALSE, open |-> FALSE, mode |-> "w", attrs |-> << >>,
   vectors |-> << >>, ids |-> << >>]
CreatedCache(n) ==
  [created |-> TRUE, open |-> TRUE, mode |-> "w",
   attrs |-> [total_vectors |-> n],
   vectors |-> [p \in 1..n |-> Unwritten], ids |-> [p \in 1..n |-> NoId]]

\* Number of rows h5py selects for dataset[start_idx:end_idx]: the slice
\* is clipped to the extent of the dataset.
SelCount(dataset, start_idx, end_idx) ==
  IF Min(end_idx, Len(dataset)) > start_idx
    THEN Min(end_idx, Len(dataset)) - start_idx
    ELSE 0

\* dataset[start_idx:end_idx] = values raises (h5py: "Can't broadcast")
\* unless the selection is empty (the assignment returns at once), values
\* has as many rows as the selection, or values has a single row.
AssignRaises(dataset, values, start_idx, end_idx) ==
  /\ SelCount(dataset, start_idx, end_idx) > 0
  /\ Len(values) # 1
  /\ Len(values) # SelCount(dataset, start_idx, end_idx)

\* Mutant: the values are stored from row 0 whatever start_idx is.
WriteRowsFromZero(dataset, values, start_idx, end_idx) ==
  [p \in 1..Len(dataset) |->
     IF p <= SelCount(dataset, start_idx, end_idx)
       THEN (IF Len(values) = 1 THEN values[1] ELSE values[p])
       ELSE dataset[p]]

\* dataset[start_idx:end_idx] = values when the assignment does not raise:
\* the selected rows take the values (a single value is broadcast).
WriteRows(dataset, values, start_idx, end_idx) ==
  [p \in 1..Len(dataset) |->
     IF start_idx < p /\ p <= start_idx + SelCount(dataset, start_idx, end_idx)
       THEN (IF Len(values) = 1 THEN values[1] ELSE values[p - start_idx])
       ELSE dataset[p]]

\* write_batch raises on a closed handle (line 121) and when one of its two
\* slice assignments raises; end_idx is start_idx + len(vectors) for both.
WriteBatchRaises(c, vectors, ids, start_idx) ==
  \/ ~c.open
  \/ c.mode = "r" /\ SelCount(c.vectors, start_idx,
                              start_idx + Len(vectors)) > 0
  \/ AssignRaises(c.vectors, vectors, start_idx, start_idx + Len(vectors))
  \/ AssignRaises(c.ids, ids, start_idx, start_idx + Len(vectors))

\* The cache after write_batch(vectors, ids, start_idx): the vector rows
\* are assigned first (line 127), the ids next (line 131); an assignment
\* that raises ends the call and leaves what was assigned before it.
WriteBatch(c, vectors, ids, start_idx) ==
  IF \/ ~c.open
     \/ c.mode = "r"
     \/ AssignRaises(c.vectors, vectors, start_idx, start_idx + Len(vectors))
    THEN c
    ELSE [c EXCEPT
            !.vectors = WriteRows(@, vectors, start_idx,
                                  start_idx + Len(vectors)),
            !.ids = IF AssignRaises(c.ids, ids, start_idx,
                                    start_idx + Len(vectors))
                      THEN @
                      ELSE WriteRows(@, EncodeIds(ids), start_idx,
                                     start_idx + Len(vectors))]

\* Mutant: the results file is rewritten with the latest result only.
SaveLatestOnly(rs) == IF rs = << >> THEN << >> ELSE << rs[Len(rs)] >>

\* save_results: the file is rewritten with every result gathered so far.
SaveResults(rs) == rs

\* [bs for bs in [opt // 2, opt, opt * 2] if bs >= 8 and bs <= 2048]
InSweepRange(bs) == bs >= SweepMinSize /\ bs <= SweepMaxSize
AroundOptimum(opt) == SelectSeq(<< opt \div 2, opt, opt * 2 >>, InSweepRange)

\* max(throughput_metrics.items(), key=throughput): the first entry no
\* other entry beats.
OptimalBatch(metrics) ==
  metrics[CHOOSE k \in 1..Len(metrics) :
            /\ \A j \in 1..Len(metrics) :
                 ~Less(metrics[k].throughput, metrics[j].throughput)
            /\ \A j \in 1..(k - 1) :
                 Less(metrics[j].throughput, metrics[k].throughput)]

\* The batch lists a model config may carry.
BatchSizeLists == { << 1, 2 >>, << 4 >> }

GenBatches == NumBatches(Len(documents), optimal_batch_size)
GenBatchDocs(k) == Batch(documents, optimal_batch_size, k)
GenBatchTexts(k) == [q \in 1..Len(GenBatchDocs(k)) |-> GenBatchDocs(k)[q].text]
GenBatchIds(k) == [q \in 1..Len(GenBatchDocs(k)) |-> GenBatchDocs(k)[q].id]

TunerLocalsIdle ==
  /\ start_size' = 1
  /\ max_size' = 1
  /\ test_iterations' = 1
  /\ tn_pc' = "idle"
  /\ tn_batch_size' = 0
  /\ best_batch_size' = 0
  /\ best_throughput' = Zero
  /\ previous_throughput' = Zero
  /\ latencies' = << >>
  /\ trials_ok' = 0
  /\ tested' = << >>

tunerLocals == << start_size, max_size, test_iterations, tn_pc,
                 tn_batch_size, best_batch_size, best_throughput,
                 previous_throughput, latencies, trials_ok, tested >>

InitBench ==
  /\ IdleCache
  /\ IdleSampler
  /\ IdleEmbed
  /\ max_concurrent_requests = MaxConcurrent
  /\ semaphore = max_concurrent_requests
  /\ \E n \in {0, MaxSample} : texts = [i \in 1..n |-> i]
  /\ start_size = 1
  /\ max_size = 1
  /\ test_iterations = 1
  /\ tn_pc = "idle"
  /\ tn_batch_size = 0
  /\ best_batch_size = 0
  /\ best_throughput = Zero
  /\ previous_throughput = Zero
  /\ latencies = << >>
  /\ trials_ok = 0
  /\ tested = << >>
  /\ \E n \in 1..MaxModels : \E bsl \in BatchSizeLists :
       models = [i \in 1..n |-> [name |-> i, batch_sizes |-> bsl]]
  /\ \E n \in 0..MaxDocs : documents = [i \in 1..n |-> Document(i)]
  /\ async_mode \in BOOLEAN
  /\ auto_tune_batch_size \in (IF async_mode THEN BOOLEAN ELSE {FALSE})
  /\ run_pc = "running"
  /\ bm_i = 0
  /\ bm_pc = "next"
  /\ model_state = [i \in 1..Len(models) |-> "Queued"]
  /\ probe_count = 0
  /\ batch_sizes_to_test = << >>
  /\ throughput_metrics = << >>
  /\ sweep_k = 0
  /\ optimal_batch_size = 0
  /\ cache = [i \in 1..Len(models) |-> NoCache]
  /\ gen_k = 0
  /\ gen_failed = {}
  /\ results = << >>
  /\ persisted = << >>

benchLocals == << probe_count, batch_sizes_to_test, throughput_metrics,
                 sweep_k, optimal_batch_size, gen_k, gen_failed >>
benchArgs == << models, documents, auto_tune_batch_size, async_mode >>

\* An exception leaves benchmark_model and, nothing catching it, the
\* "for i, model_config in enumerate(models)" loop of the serial run.
Raise == run_pc' = "raised" /\ bm_pc' = "raised"

\* The loop header of run_serial_benchmark: the next model, or the end.
RunNextModel ==
  /\ run_pc = "running"
  /\ bm_pc = "next"
  /\ IF bm_i < Len(models)
       THEN /\ bm_i' = bm_i + 1
            /\ model_state' = [model_state EXCEPT ![bm_i + 1] = "LatencyProbe"]
            /\ bm_pc' = "probe"
            /\ run_pc' = run_pc
       ELSE /\ run_pc' = "finished"
            /\ bm_pc' = "finished"
            /\ UNCHANGED << bm_i, model_state >>
  /\ probe_count' = 0
  /\ UNCHANGED << batch_sizes_to_test, throughput_metrics, sweep_k,
                  optimal_batch_size, gen_k, gen_failed, cache, results,
                  persisted >>
  /\ UNCHANGED << benchArgs, varsEmbed, varsTuner >>
  /\ UNCHANGED << varsSampler, varsCache >>

\* One request of test_single_latency: texts[i % len(texts)] raises on an
\* empty sample; the result of the request is not looked at.
ProbeRequest(resp) ==
  /\ run_pc = "running"
  /\ bm_pc = "probe"
  /\ probe_count < ProbeWarmup + ProbeSamples
  /\ ~SemaphoreLocked(semaphore)
  /\ IF texts = << >>
       THEN Raise /\ UNCHANGED probe_count
       ELSE probe_count' = probe_count + 1 /\ UNCHANGED << run_pc, bm_pc >>
  /\ UNCHANGED << bm_i, model_state, batch_sizes_to_test, throughput_metrics,
                  sweep_k, optimal_batch_size, gen_k, gen_failed, cache,
                  results, persisted >>
  /\ UNCHANGED << benchArgs, varsEmbed, varsTuner >>
  /\ UNCHANGED << varsSampler, varsCache >>

\* Mutant: the probe is taken to be over after its warm-up requests.
ProbeOverAfterWarmup(count) == count = ProbeWarmup

\* test_single_latency returns once the warm-up loop and the loop of the
\* timed samples have both run to their end.
ProbeOver(count) == count = ProbeWarmup + ProbeSamples

\* The probe is over; step 2 starts with the tuning search or, without
\* auto-tuning, with the configured batch sizes.
ProbeDone ==
  /\ run_pc = "running"
  /\ bm_pc = "probe"
  /\ ProbeOver(probe_count)
  /\ model_state' = [model_state EXCEPT ![bm_i] = "ThroughputSweep"]
  /\ IF auto_tune_batch_size
       THEN /\ bm_pc' = "tune"
            /\ start_size' = models[bm_i].batch_sizes[1]
            /\ max_size' = SweepMaxSize
            /\ test_iterations' = MaxIterations
            /\ tn_pc' = "init"
            /\ UNCHANGED << batch_sizes_to_test, sweep_k >>
       ELSE /\ bm_pc' = "sweep"
            /\ batch_sizes_to_test' = models[bm_i].batch_sizes
            /\ sweep_k' = 1
            /\ UNCHANGED << start_size, max_size, test_iterations, tn_pc >>
  /\ UNCHANGED << texts, tn_batch_size, best_batch_size, best_throughput,
                  previous_throughput, latencies, trials_ok, tested >>
  /\ UNCHANGED << run_pc, bm_i, probe_count, throughput_metrics,
                  optimal_batch_size, gen_k, gen_failed, cache, results,
                  persisted >>
  /\ UNCHANGED << benchArgs, varsEmbed >>
  /\ UNCHANGED << varsSampler, varsCache >>

\* find_optimal_batch_size has returned: the sizes around its optimum
\* that lie in [8, 2048] are the ones to sweep.
TuneDone ==
  /\ run_pc = "running"
  /\ bm_pc = "tune"
  /\ tn_pc = "returned"
  /\ batch_sizes_to_test' = AroundOptimum(best_batch_size)
  /\ sweep_k' = 1
  /\ bm_pc' = "sweep"
  /\ TunerLocalsIdle
  /\ UNCHANGED texts
  /\ UNCHANGED << run_pc, bm_i, model_state, probe_count, throughput_metrics,
                  optimal_batch_size, gen_k, gen_failed, cache, results,
                  persisted >>
  /\ UNCHANGED << benchArgs, varsEmbed >>
  /\ UNCHANGED << varsSampler, varsCache >>

\* One iteration of test_throughput at batch_sizes_to_test[sweep_k].
SweepTrial(resp, lat) ==
  /\ run_pc = "running"
  /\ bm_pc = "sweep"
  /\ sweep_k <= Len(batch_sizes_to_test)
  /\ Len(latencies) < MaxIterations
  /\ ~SemaphoreLocked(semaphore)
  /\ latencies' = Append(latencies, lat)
  /\ UNCHANGED << texts, start_size, max_size, test_iterations, tn_pc,
                  tn_batch_size, best_batch_size, best_throughput,
                  previous_throughput, trials_ok, tested >>
  /\ UNCHANGED << varsBench, varsEmbed >>
  /\ UNCHANGED << varsSampler, varsCache >>

\* The metrics of the size just swept are stored under that size.
SweepEvaluate ==
  /\ run_pc = "running"
  /\ bm_pc = "sweep"
  /\ sweep_k <= Len(batch_sizes_to_test)
  /\ Len(latencies) = MaxIterations
  /\ throughput_metrics' = Append(throughput_metrics,
        [size |-> batch_sizes_to_test[sweep_k],
         throughput |-> Throughput(batch_sizes_to_test[sweep_k], latencies)])
  /\ sweep_k' = sweep_k + 1
  /\ latencies' = << >>
  /\ UNCHANGED << texts, start_size, max_size, test_iterations, tn_pc,
                  tn_batch_size, best_batch_size, best_throughput,
                  previous_throughput, trials_ok, tested >>
  /\ UNCHANGED << run_pc, bm_i, bm_pc, model_state, probe_count,
                  batch_sizes_to_test, optimal_batch_size, gen_k, gen_failed,
                  cache, results, persisted >>
  /\ UNCHANGED << benchArgs, varsEmbed >>
  /\ UNCHANGED << varsSampler, varsCache >>

\* The size of maximal measured throughput is chosen (max() raises on an
\* empty sweep); step 3 creates the cache file and prepares the batches.
SweepSelect ==
  /\ run_pc = "running"
  /\ bm_pc = "sweep"
  /\ sweep_k > Len(batch_sizes_to_test)
  /\ IF throughput_metrics = << >>
       THEN /\ Raise
            /\ UNCHANGED << model_state, optimal_batch_size, cache, gen_k >>
       ELSE /\ optimal_batch_size' = OptimalBatch(throughput_metrics).size
            /\ model_state' = [model_state EXCEPT ![bm_i] = "FullGeneration"]
            /\ cache' = [cache EXCEPT ![bm_i] = CreatedCache(Len(documents))]
            /\ gen_k' = 1
            /\ bm_pc' = "gen_loop"
            /\ run_pc' = run_pc
  /\ UNCHANGED << bm_i, probe_count, batch_sizes_to_test, throughput_metrics,
                  sweep_k, gen_failed, results, persisted >>
  /\ UNCHANGED << benchArgs, varsEmbed, varsTuner >>
  /\ UNCHANGED << varsSampler, varsCache >>

\* The request of batch gen_k is awaited: embed_batch_async takes a permit
\* and posts the texts of the batch.
GenIssue ==
  /\ run_pc = "running"
  /\ bm_pc = "gen_loop"
  /\ gen_k <= GenBatches
  /\ ~SemaphoreLocked(semaphore)
  /\ semaphore' = semaphore - 1
  /\ bm_pc' = "gen_wait"
  /\ UNCHANGED << all_texts, batch_size, show_progress,
                  max_concurrent_requests, task_pc, task_result, task_resp,
                  completed, acquires, releases, ec_pc, ec_out >>
  /\ UNCHANGED << run_pc, bm_i, model_state, probe_count, batch_sizes_to_test,
                  throughput_metrics, sweep_k, optimal_batch_size, cache,
                  gen_k, gen_failed, results, persisted >>
  /\ UNCHANGED << benchArgs, varsTuner >>
  /\ UNCHANGED << varsSampler, varsCache >>

\* The request of batch gen_k is answered.  A failed batch is logged and
\* skipped (the synchronous benchmark leaves the loop instead); vectors are
\* written at the offset of the batch, and a write_batch that raises closes
\* the cache on its way out.
GenComplete(resp) ==
  /\ run_pc = "running"
  /\ bm_pc = "gen_wait"
  /\ semaphore' = SemaphoreAfterExit(semaphore, resp)
  /\ LET embeddings == EmbedBatchResult(GenBatchTexts(gen_k), resp)
         start_idx == (gen_k - 1) * optimal_batch_size
     IN  IF embeddings.isNone
           THEN /\ gen_failed' = gen_failed \cup {gen_k}
                /\ gen_k' = IF async_mode THEN gen_k + 1 ELSE GenBatches + 1
                /\ bm_pc' = "gen_loop"
                /\ UNCHANGED << run_pc, cache >>
           ELSE /\ cache' = [cache EXCEPT ![bm_i] =
                     [WriteBatch(@, embeddings.rows, GenBatchIds(gen_k),
                                 start_idx)
                        EXCEPT !.open =
                          ~WriteBatchRaises(cache[bm_i], embeddings.rows,
                                            GenBatchIds(gen_k), start_idx)]]
                /\ IF WriteBatchRaises(cache[bm_i], embeddings.rows,
                                       GenBatchIds(gen_k), start_idx)
                     THEN Raise /\ UNCHANGED gen_k
                     ELSE /\ gen_k' = gen_k + 1
                          /\ bm_pc' = "gen_loop"
                          /\ run_pc' = run_pc
                /\ UNCHANGED gen_failed
  /\ UNCHANGED << all_texts, batch_size, show_progress,
                  max_concurrent_requests, task_pc, task_result, task_resp,
                  completed, acquires, releases, ec_pc, ec_out >>
  /\ UNCHANGED << bm_i, model_state, probe_count, batch_sizes_to_test,
                  throughput_metrics, sweep_k, optimal_batch_size, results,
                  persisted >>
  /\ UNCHANGED << benchArgs, varsTuner >>
  /\ UNCHANGED << varsSampler, varsCache >>

\* The batch loop is over: the cache is closed, the result record is built
\* (the extrapolation divides by the generation throughput, which is zero
\* for an empty corpus), appended to self.results and saved.
GenFinish ==
  /\ run_pc = "running"
  /\ bm_pc = "gen_loop"
  /\ gen_k > GenBatches
  /\ cache' = [cache EXCEPT ![bm_i].open = FALSE]
  /\ IF documents = << >>
       THEN /\ Raise
            /\ UNCHANGED << model_state, results, persisted, benchLocals >>
       ELSE /\ results' = Append(results,
                 [model_name |-> models[bm_i].name,
                  optimal_batch_size |-> optimal_batch_size,
                  total_vectors_generated |-> Len(documents)])
            /\ persisted' = SaveResults(results')
            /\ model_state' = [model_state EXCEPT ![bm_i] = "Done"]
            /\ bm_pc' = "next"
            /\ run_pc' = run_pc
            /\ probe_count' = 0
            /\ batch_sizes_to_test' = << >>
            /\ throughput_metrics' = << >>
            /\ sweep_k' = 0
            /\ optimal_batch_size' = 0
            /\ gen_k' = 0
            /\ gen_failed' = {}
  /\ UNCHANGED bm_i
  /\ UNCHANGED << benchArgs, varsEmbed, varsTuner >>
  /\ UNCHANGED << varsSampler, varsCache >>

BenchTuner ==
  /\ run_pc = "running"
  /\ bm_pc = "tune"
  /\ \/ TunerStart
     \/ TunerLoop
     \/ \E resp \in TrialResponses(Len(Slice(texts, 0, tn_batch_size))) :
          \E lat \in 1..MaxBenchLatency : TunerTrial(resp, lat)
     \/ TunerEvaluate

NextBench ==
  \/ RunNextModel
  \/ \E resp \in TrialResponses(1) : ProbeRequest(resp)
  \/ ProbeDone
  \/ BenchTuner
  \/ TuneDone
  \/ \E resp \in TrialResponses(1) :
       \E lat \in 1..MaxBenchLatency : SweepTrial(resp, lat)
  \/ SweepEvaluate
  \/ SweepSelect
  \/ GenIssue
  \/ \E resp \in Responses(Len(GenBatchTexts(gen_k))) : GenComplete(resp)
  \/ GenFinish

SpecBench == InitBench /\ [][NextBench]_vars

\* ------------------------------------------------ sample_documents model
\* A line of collection.tsv: its position stands for the doc id, parts is
\* len(line.strip().split('\t')), text_len is len(text).
LineKinds ==
  { [parts |-> 2, text_len |-> MinLength],
    [parts |-> 2, text_len |-> MaxLength + 1],
    [parts |-> 1, text_len |-> MinLength] }

\* len(parts) == 2 and min_length <= text_len <= max_length
ValidLine(l) ==
  l.parts = 2 /\ MinLength <= l.text_len /\ l.text_len <= MaxLength

\* load_collection_iter(): the documents of the valid lines, in file order.
RECURSIVE LoadCollectionIter(_)
LoadCollectionIter(ls) ==
  IF ls = << >> THEN << >>
  ELSE IF ValidLine(Head(ls))
         THEN << [id |-> Head(ls).id, text |-> Head(ls).text_len] >>
                \o LoadCollectionIter(Tail(ls))
         ELSE LoadCollectionIter(Tail(ls))

\* Mutant: load_collection() stops one document early.
LoadCollectionShort(ls) ==
  SubSeq(LoadCollectionIter(ls), 1, Len(LoadCollectionIter(ls)) - 1)

\* load_collection() with max_samples=None: every valid document is
\* appended, nothing is shuffled or cut.
LoadCollection(ls) == LoadCollectionIter(ls)

\* Mutant: random.seed has no effect on the generator.
SeededKeepsState(state, sd) == state

\* random.seed(seed): the generator restarts from the state of the seed.
Seeded(state, sd) == [seed |-> sd, calls |-> 0]

\* random.randint(0, i): a value in 0..i that is a function of the
\* generator state; raw is the value the generator yields in that state.
RandInt(raw, i) == raw % (i + 1)

\* Mutant: the drawn slot is not overwritten, the document is appended.
ReplaceByAppend(reservoir, j, doc) == Append(reservoir, doc)

\* sampled[j] = doc
Replace(reservoir, j, doc) == [reservoir EXCEPT ![j + 1] = doc]

\* Mutant: a drawn slot is never overwritten.
OverwritesNever(j, k) == FALSE

\* if j < num_samples
Overwrites(j, k) == j < k

TotalDocs == Len(LoadCollectionIter(corpus))

InitSampler ==
  /\ IdleCache
  /\ IdleEmbed
  /\ IdleTuner
  /\ IdleBench
  /\ max_concurrent_requests = MaxConcurrent
  /\ semaphore = max_concurrent_requests
  /\ source_exists \in BOOLEAN
  /\ \E n \in 0..MaxLines : \E kinds \in [1..n -> LineKinds] :
       /\ source_exists \/ n = 0
       /\ corpus = [i \in 1..n |->
                      [id |-> i, parts |-> kinds[i].parts,
                       text_len |-> kinds[i].text_len]]
  /\ num_samples \in 0..MaxLines
  /\ seed \in 1..MaxSeed
  /\ rng = Unseeded
  /\ drawn = << >>
  /\ sampled = << >>
  /\ sm_i = 0
  /\ sm_pc = "init"
  /\ sm_out = << >>
  /\ sm_run = 1
  /\ sm_first = << >>

\* Lines 141-152: the counting pass (FileNotFoundError without the file),
\* the shortcut through load_collection() and the seeding.
SampleStart ==
  /\ sm_pc = "init"
  /\ IF ~source_exists
       THEN /\ sm_pc' = "raised"
            /\ UNCHANGED << rng, sampled, sm_i, sm_out >>
       ELSE IF num_samples >= TotalDocs
         THEN /\ sm_out' = LoadCollection(corpus)
              /\ sm_pc' = "returned"
              /\ UNCHANGED << rng, sampled, sm_i >>
         ELSE /\ rng' = Seeded(rng, seed)
              /\ sampled' = << >>
              /\ sm_i' = 0
              /\ sm_pc' = "loop"
              /\ UNCHANGED sm_out
  /\ UNCHANGED << source_exists, corpus, num_samples, seed, drawn, sm_run,
                  sm_first >>
  /\ UNCHANGED << varsEmbed, varsTuner, varsBench, varsCache >>

\* Lines 154-161: one iteration of the sampling loop on the document of
\* enumerate index sm_i.
SampleStep(raw) ==
  /\ sm_pc = "loop"
  /\ sm_i < TotalDocs
  /\ LET doc == LoadCollectionIter(corpus)[sm_i + 1]
         key == << rng.seed, rng.calls >>
     IN  IF Len(sampled) < num_samples
           THEN /\ raw = 0
                /\ sampled' = Append(sampled, doc)
                /\ UNCHANGED << rng, drawn >>
           ELSE /\ key \in DOMAIN drawn => raw = drawn[key]
                /\ drawn' = IF key \in DOMAIN drawn
                              THEN drawn ELSE (key :> raw) @@ drawn
                /\ rng' = [rng EXCEPT !.calls = @ + 1]
                /\ sampled' = IF Overwrites(RandInt(raw, sm_i), num_samples)
                                THEN Replace(sampled, RandInt(raw, sm_i), doc)
                                ELSE sampled
  /\ sm_i' = sm_i + 1
  /\ UNCHANGED << source_exists, corpus, num_samples, seed, sm_pc, sm_out,
                  sm_run, sm_first >>
  /\ UNCHANGED << varsEmbed, varsTuner, varsBench, varsCache >>

\* Line 164: return sampled.
SampleReturn ==
  /\ sm_pc = "loop"
  /\ sm_i = TotalDocs
  /\ sm_out' = sampled
  /\ sm_pc' = "returned"
  /\ UNCHANGED << source_exists, corpus, num_samples, seed, rng, drawn,
                  sampled, sm_i, sm_run, sm_first >>
  /\ UNCHANGED << varsEmbed, varsTuner, varsBench, varsCache >>

\* sample_documents is called again on the same file with the same
\* arguments; the module-level generator is in the state the first call
\* left it in.
SampleAgain ==
  /\ sm_pc = "returned"
  /\ sm_run = 1
  /\ sm_first' = sm_out
  /\ sm_run' = 2
  /\ sm_pc' = "init"
  /\ sm_out' = << >>
  /\ sampled' = << >>
  /\ sm_i' = 0
  /\ UNCHANGED << source_exists, corpus, num_samples, seed, rng, drawn >>
  /\ UNCHANGED << varsEmbed, varsTuner, varsBench, varsCache >>

NextSampler ==
  \/ SampleStart
  \/ \E raw \in 0..(MaxLines - 1) : SampleStep(raw)
  \/ SampleReturn
  \/ SampleAgain

SpecSampler == InitSampler /\ [][NextSampler]_vars

\* ------------------------------------------------------ VectorCache model
\* The rows of the w-th write_batch call: distinct from Unwritten and from
\* the rows of every other call.
BatchVectors(w, m) == [q \in 1..m |-> 300 + 10 * w + q]
BatchIds(w, n, long) ==
  [q \in 1..n |->
     IdString(500 + 10 * w + q, IF long /\ q = 1 THEN IdWidth + 1 ELSE 8)]

\* The part of a cache that is on disk.
Stored(c) == [vectors |-> c.vectors, ids |-> c.ids, attrs |-> c.attrs]

\* cache = VectorCache(file, mode="w"); cache.create(total_vectors, ...)
InitCache ==
  /\ IdleEmbed
  /\ IdleTuner
  /\ IdleBench
  /\ IdleSampler
  /\ max_concurrent_requests = MaxConcurrent
  /\ semaphore = max_concurrent_requests
  /\ \E n \in 1..MaxTotal : vc = CreatedCache(n)
  /\ vc_log = << >>
  /\ vc_last = NoCall
  /\ vc_ops = 0

\* cache.write_batch(vectors, ids, start_idx) with m vectors and n ids, the
\* first id longer than an entry of the ids dataset when long.
CacheWrite(start_idx, m, n, long) ==
  /\ vc.created
  /\ Len(vc_log) < MaxWrites
  /\ vc_ops < MaxOps
  /\ LET w == Len(vc_log) + 1
         vectors == BatchVectors(w, m)
         ids == BatchIds(w, n, long)
     IN  /\ vc' = WriteBatch(vc, vectors, ids, start_idx)
         /\ vc_log' = Append(vc_log,
               [start_idx |-> start_idx, vectors |-> vectors, ids |-> ids,
                raised |-> WriteBatchRaises(vc, vectors, ids, start_idx),
                before |-> Stored(vc),
                after |-> Stored(WriteBatch(vc, vectors, ids, start_idx))])
         /\ vc_last' = [op |-> "write_batch", was_open |-> vc.open,
                        raised |-> WriteBatchRaises(vc, vectors, ids,
                                                    start_idx),
                        value |-> << >>]
  /\ vc_ops' = vc_ops + 1
  /\ UNCHANGED << varsEmbed, varsTuner, varsBench, varsSampler >>

NextCache ==
  \E start_idx \in 0..MaxTotal : \E m \in 0..MaxWriteLen :
    \E n \in {m, m + 1} : \E long \in BOOLEAN :
      /\ n = m \/ m >= 1
      /\ long => n = 1 /\ m = 1
      /\ CacheWrite(start_idx, m, n, long)

SpecCache == InitCache /\ [][NextCache]_vars

\* end_idx=None of read_vectors and read_ids: read to the end.
NoEnd == 0 - 1

\* self.h5file["vectors"][start_idx:end_idx]  (or [start_idx:])
ReadVectors(c, start_idx, end_idx) ==
  SubSeq(c.vectors, start_idx + 1,
         IF end_idx = NoEnd THEN Len(c.vectors)
                            ELSE Min(end_idx, Len(c.vectors)))

\* [id_b.decode('utf-8') for id_b in self.h5file["ids"][start_idx:end_idx]]
ReadIds(c, start_idx, end_idx) ==
  LET id_bytes == SubSeq(c.ids, start_idx + 1,
                         IF end_idx = NoEnd THEN Len(c.ids)
                                            ELSE Min(end_idx, Len(c.ids)))
  IN  [q \in 1..Len(id_bytes) |-> DecodeId(id_bytes[q])]

\* dict(self.h5file.attrs)
GetMetadata(c) == c.attrs

\* The guard of write_batch, read_vectors, read_ids and get_metadata:
\* "if self.h5file is None: raise RuntimeError".
NotOpened(c) == ~c.open

\* cache.read_vectors(start_idx, end_idx)
CacheReadVectors(start_idx, end_idx) ==
  /\ vc.created
  /\ vc_ops < MaxOps
  /\ vc_last' = [op |-> "read_vectors", was_open |-> vc.open,
                 raised |-> NotOpened(vc),
                 value |-> IF NotOpened(vc) THEN << >>
                           ELSE ReadVectors(vc, start_idx, end_idx)]
  /\ vc_ops' = vc_ops + 1
  /\ UNCHANGED << vc, vc_log >>
  /\ UNCHANGED << varsEmbed, varsTuner, varsBench, varsSampler >>

\* cache.read_ids(start_idx, end_idx)
CacheReadIds(start_idx, end_idx) ==
  /\ vc.created
  /\ vc_ops < MaxOps
  /\ vc_last' = [op |-> "read_ids", was_open |-> vc.open,
                 raised |-> NotOpened(vc),
                 value |-> IF NotOpened(vc) THEN << >>
                           ELSE ReadIds(vc, start_idx, end_idx)]
  /\ vc_ops' = vc_ops + 1
  /\ UNCHANGED << vc, vc_log >>
  /\ UNCHANGED << varsEmbed, varsTuner, varsBench, varsSampler >>

\* cache.get_metadata()
CacheGetMetadata ==
  /\ vc.created
  /\ vc_ops < MaxOps
  /\ vc_last' = [op |-> "get_metadata", was_open |-> vc.open,
                 raised |-> NotOpened(vc),
                 value |-> IF NotOpened(vc) THEN << >> ELSE GetMetadata(vc)]
  /\ vc_ops' = vc_ops + 1
  /\ UNCHANGED << vc, vc_log >>
  /\ UNCHANGED << varsEmbed, varsTuner, varsBench, varsSampler >>

\* cache.get_info(): a handle that is not open is opened in mode "r"
\* first (lines 259-260) and stays open; the metadata is returned.
CacheGetInfo ==
  /\ vc.created
  /\ vc_ops < MaxOps
  /\ vc' = IF NotOpened(vc) THEN [vc EXCEPT !.open = TRUE, !.mode = "r"]
                            ELSE vc
  /\ vc_last' = [op |-> "get_info", was_open |-> vc.open, raised |-> FALSE,
                 value |-> GetMetadata(vc)]
  /\ vc_ops' = vc_ops + 1
  /\ UNCHANGED vc_log
  /\ UNCHANGED << varsEmbed, varsTuner, varsBench, varsSampler >>

\* cache.close(): closes an open file, does nothing otherwise.
CacheClose ==
  /\ vc.created
  /\ vc_ops < MaxOps
  /\ vc' = [vc EXCEPT !.open = FALSE]
  /\ vc_last' = [op |-> "close", was_open |-> vc.open, raised |-> FALSE,
                 value |-> << >>]
  /\ vc_ops' = vc_ops + 1
  /\ UNCHANGED vc_log
  /\ UNCHANGED << varsEmbed, varsTuner, varsBench, varsSampler >>

\* A handle used by a caller that writes single rows, reads, asks for
\* metadata and closes, in any order.
NextHandle ==
  \/ \E start_idx \in 0..(MaxTotal - 1) : CacheWrite(start_idx, 1, 1, FALSE)
  \/ \E start_idx \in 0..MaxTotal :
       \E end_idx \in {NoEnd} \cup start_idx..MaxTotal :
         CacheReadVectors(start_idx, end_idx)
  \/ \E start_idx \in 0..MaxTotal :
       \E end_idx \in {NoEnd} \cup start_idx..MaxTotal :
         CacheReadIds(start_idx, end_idx)
  \/ CacheGetMetadata
  \/ CacheGetInfo
  \/ CacheClose

SpecHandle == InitCache /\ [][NextHandle]_vars

\* ------------------------------------------------- dispatcher properties
EcDone == ec_pc \in {"returned", "raised"}
EcSucceeded == ec_pc = "returned" /\ ~ec_out.isNone
BatchTexts(j) == Batch(all_texts, batch_size, j)
InFlight == {j \in 1..Len(task_pc) : task_pc[j] = "inflight"}
AllResponsesComplete ==
  \A j \in 1..Len(task_pc) :
    task_resp[j].kind = "ok" /\ task_resp[j].count = Len(BatchTexts(j))

\* C1 (as claimed): a successful embed_concurrent returns, at row i, the
\* vector the endpoint returned for input i, whatever the completion order
\* of the batches and with the progress display on or off.  Stated for the
\* calls in which every batch was answered in full.
C1_OutputInInputOrder ==
  (EcSucceeded /\ AllResponsesComplete) =>
    /\ Len(ec_out.rows) = Len(all_texts)
    /\ \A i \in 1..Len(all_texts) : ec_out.rows[i] = Embedding(all_texts[i])

\* C2 (as claimed): embed_batch_async on n texts fails (returns None)
\* whenever the response carries fewer than n embeddings; it never returns
\* an array with fewer rows than texts submitted.
C2_PartialResponseRejected ==
  \A j \in 1..Len(task_pc) :
    task_pc[j] = "done" =>
      \/ task_result[j].isNone
      \/ Len(task_result[j].rows) >= Len(BatchTexts(j))

\* C3 (as claimed): a successful embed_concurrent returns as many vectors
\* as it was given texts, for every endpoint response.
C3_OutputLengthEqualsInput ==
  EcSucceeded => Len(ec_out.rows) = Len(all_texts)

\* C5: embed_concurrent is all-or-nothing: when at least one batch task
\* returned a failure, the call returns None and hands no vector of the
\* successful batches to the caller.
C5_AllOrNothing ==
  (EcDone /\ \E j \in 1..Len(task_pc) : task_result[j].isNone) =>
    ec_pc = "returned" /\ ec_out = None

C5_Witness ==
  /\ ec_pc = "returned"
  /\ ec_out = None
  /\ \E j \in 1..Len(task_pc) : task_result[j].isNone
  /\ \E j \in 1..Len(task_pc) :
       ~task_result[j].isNone /\ task_result[j].rows # << >>

\* C6: at most max_concurrent_requests requests of the client are in
\* flight at the endpoint, however many embed_batch_async tasks were
\* started; the free permits and the requests in flight add up to C.
C6_InFlightBounded ==
  /\ Cardinality(InFlight) <= max_concurrent_requests
  /\ semaphore >= 0
  /\ semaphore + Cardinality(InFlight) = max_concurrent_requests

\* C permits are taken while a further started task waits for one.
C6_Witness ==
  /\ Cardinality(InFlight) = max_concurrent_requests
  /\ max_concurrent_requests >= 2
  /\ \E j \in 1..Len(task_pc) : task_pc[j] = "pending"

\* C7: every embed_batch_async task that acquired a permit releases it
\* exactly once on every outcome (vectors, non-2xx status, timeout, parse
\* error); once all tasks have returned, all C permits are free again.
C7_PermitReleasedExactlyOnce ==
  /\ \A j \in 1..Len(task_pc) :
       /\ task_pc[j] = "pending" => acquires[j] = 0 /\ releases[j] = 0
       /\ task_pc[j] = "inflight" => acquires[j] = 1 /\ releases[j] = 0
       /\ task_pc[j] = "done" => acquires[j] = 1 /\ releases[j] = 1
  /\ (\A j \in 1..Len(task_pc) : task_pc[j] = "done") =>
       semaphore = max_concurrent_requests

C7_Witness ==
  /\ EcDone
  /\ semaphore = max_concurrent_requests
  /\ \E j \in 1..Len(task_pc) : task_resp[j].kind = "http_error"
  /\ \E j \in 1..Len(task_pc) : task_resp[j].kind = "timeout"
  /\ \E j \in 1..Len(task_pc) : task_resp[j].kind = "parse_error"

\* --------------------------------------------------------- tuner properties
\* C10: when find_optimal_batch_size has measured at least one size, the
\* returned best_throughput is the maximum of the throughputs measured at
\* all tested sizes (the size at which the search stopped included) and
\* best_batch_size is a tested size that achieved it.
C10_BestIsMaxOfTested ==
  (tn_pc = "returned" /\ tested # << >>) =>
    /\ \A k \in 1..Len(tested) : ~Less(best_throughput, tested[k].throughput)
    /\ \E k \in 1..Len(tested) :
         /\ tested[k].size = best_batch_size
         /\ tested[k].throughput = best_throughput

\* Two sizes measured, the second slower than the first without tripping
\* the degradation rule: the best pair is not the last one measured.
C10_Witness ==
  /\ tn_pc = "returned"
  /\ Len(tested) = 2
  /\ best_batch_size = tested[1].size
  /\ Less(tested[2].throughput, tested[1].throughput)
  /\ ~Degraded(tested[2].throughput, tested[1].throughput)

\* t is below 90% of p.
BelowNinetyPercent(t, p) == 10 * t.num * p.den < 9 * p.num * t.den

RECURSIVE Pow2(_)
Pow2(n) == IF n = 0 THEN 1 ELSE 2 * Pow2(n - 1)

\* C11: as soon as the throughput measured at a candidate size is below
\* 90% of the throughput measured at the previous candidate size, that
\* size is the last one tested, the search has returned, and the pair
\* returned is the best pair of the sizes measured before it.
C11_DegradationStops ==
  \A k \in 2..Len(tested) :
    BelowNinetyPercent(tested[k].throughput, tested[k - 1].throughput) =>
      /\ k = Len(tested)
      /\ tn_pc = "returned"
      /\ \A j \in 1..(k - 1) : ~Less(best_throughput, tested[j].throughput)
      /\ \E j \in 1..(k - 1) :
           /\ tested[j].size = best_batch_size
           /\ tested[j].throughput = best_throughput

\* The second size falls below 90% of the first while a third size would
\* still be within max_size and the sample: the search stops at the second
\* and returns the first.
C11_Witness ==
  /\ tn_pc = "returned"
  /\ Len(tested) = 2
  /\ BelowNinetyPercent(tested[2].throughput, tested[1].throughput)
  /\ best_batch_size = tested[1].size
  /\ best_throughput = tested[1].throughput
  /\ WithinLimits(2 * tested[2].size)

\* C12: the sizes measured are start, 2*start, 4*start, ... in this
\* order; no trial is issued at a size above max_size or above the number
\* of sample texts, and a trial at size b sends the first b sample texts.
C12_CandidateSizes ==
  /\ \A k \in 1..Len(tested) :
       /\ tested[k].size = start_size * Pow2(k - 1)
       /\ tested[k].size <= max_size
       /\ tested[k].size <= Len(texts)
  /\ tn_pc = "trials" =>
       /\ tn_batch_size = start_size * Pow2(Len(tested))
       /\ tn_batch_size <= max_size
       /\ tn_batch_size <= Len(texts)
       /\ Slice(texts, 0, tn_batch_size) = SubSeq(texts, 1, tn_batch_size)
       /\ Len(Slice(texts, 0, tn_batch_size)) = tn_batch_size

\* Two sizes measured, and the third is within max_size but larger than
\* the sample: the search ends there.
C12_Witness ==
  /\ tn_pc = "returned"
  /\ Len(tested) = 2
  /\ tested[2].size = 2 * tested[1].size
  /\ tn_batch_size = 2 * tested[2].size
  /\ tn_batch_size <= max_size
  /\ tn_batch_size > Len(texts)

\* C13 (as claimed): when every trial at a candidate size has failed, the
\* search stops at that size and the size does not become the best batch
\* size.
C13_AllTrialsFailedStops ==
  [][(/\ tn_pc = "trials"
      /\ Len(latencies) = test_iterations
      /\ test_iterations > 0
      /\ trials_ok = 0)
     => (/\ tn_pc' = "returned"
         /\ best_batch_size' = best_batch_size
         /\ best_throughput' = best_throughput)]_vars

\* C14 (as claimed): find_optimal_batch_size returns no pair when no size
\* was tested at all (start_size above max_size or above the number of
\* sample texts).
C14_NoPairWithoutTrial ==
  ~(/\ tn_pc = "returned"
    /\ (start_size > max_size \/ start_size > Len(texts)))

\* ----------------------------------------------- orchestrator properties
WrittenRows(c) == {p \in 1..Len(c.vectors) : c.vectors[p] # Unwritten}
RunOver == run_pc \in {"finished", "raised"}
DoneModels == {m \in 1..Len(model_state) : model_state[m] = "Done"}

\* C4 (as claimed): during the full generation of a model, when the
\* embedding of a batch has failed the cache of that generation holds no
\* vector of any other batch: it receives the vectors of all batches or of
\* none.
C4_CacheAllOrNothing ==
  (bm_pc \in {"gen_loop", "gen_wait"} /\ gen_failed # {}) =>
    WrittenRows(cache[bm_i]) = {}

\* C8 (as claimed): an error raised in a phase of one model does not end
\* the run: the serial run ends by finishing its list, having benchmarked
\* every queued model (none is left queued when the run is over).
C8_RunSurvivesModelFailure ==
  RunOver => \A m \in 1..Len(model_state) : model_state[m] # "Queued"

\* C9: the results file holds, at every point of a run, exactly the
\* results of the models that have reached Done, in run order; so the
\* result of a model is on disk before the next model starts and an abort
\* loses the model in flight only.
C9_PersistedAfterEveryModel ==
  /\ Len(persisted) = Cardinality(DoneModels)
  /\ \A m \in DoneModels :
       \E k \in 1..Len(persisted) : persisted[k].model_name = models[m].name
  /\ \A j, k \in 1..Len(persisted) :
       j < k => persisted[j].model_name < persisted[k].model_name
  /\ \A k \in 1..Len(persisted) :
       persisted[k].total_vectors_generated = Len(documents)

\* The run is aborted inside the second model; the first one is on disk.
C9_Witness ==
  /\ run_pc = "raised"
  /\ bm_i = 2
  /\ model_state[1] = "Done"
  /\ model_state[2] = "FullGeneration"
  /\ Len(persisted) = 1
  /\ persisted[1].model_name = models[1].name

\* --------------------------------------------------- sampler properties
SampleReturned == sm_pc = "returned"

\* The valid lines of the corpus, by position.
ValidPositions == {i \in 1..Len(corpus) : ValidLine(corpus[i])}

\* C15: for a corpus of n valid records the sampler returns exactly k
\* records when k <= n, and never more than k records.
C15_SampleSize ==
  SampleReturned =>
    /\ num_samples <= Cardinality(ValidPositions) =>
         Len(sm_out) = num_samples
    /\ Len(sm_out) <= num_samples

\* A strict subset was sampled and a later record has taken a slot.
C15_Witness ==
  /\ SampleReturned
  /\ num_samples >= 2
  /\ num_samples < Cardinality(ValidPositions)
  /\ Len(sm_out) = num_samples
  /\ \E q \in 1..Len(sm_out) :
       sm_out[q] # LoadCollectionIter(corpus)[q]

\* C16: a second run of the sampler on the same corpus with the same k
\* and the same seed returns the same documents in the same slots as the
\* first run.
C16_SameSeedSameSample ==
  (SampleReturned /\ sm_run = 2) => sm_out = sm_first

\* Both runs went through the reservoir loop and replaced a slot.
C16_Witness ==
  /\ SampleReturned
  /\ sm_run = 2
  /\ num_samples < Cardinality(ValidPositions)
  /\ sm_out = sm_first
  /\ \E q \in 1..Len(sm_out) :
       sm_out[q] # LoadCollectionIter(corpus)[q]

\* C17: for k >= n the sampler returns all n valid records, in corpus
\* order, each exactly once.
C17_AllInOrder ==
  (SampleReturned /\ num_samples >= Cardinality(ValidPositions)) =>
    /\ Len(sm_out) = Cardinality(ValidPositions)
    /\ \A q \in 1..Len(sm_out) : sm_out[q].id \in ValidPositions
    /\ \A q, r \in 1..Len(sm_out) : q < r => sm_out[q].id < sm_out[r].id

\* A corpus with skipped lines between valid ones, k above n.
C17_Witness ==
  /\ SampleReturned
  /\ num_samples > Cardinality(ValidPositions)
  /\ Cardinality(ValidPositions) >= 2
  /\ Len(corpus) > Cardinality(ValidPositions)
  /\ Len(sm_out) = Cardinality(ValidPositions)

\* C18 (as claimed): on an existing source with no valid record the
\* sampler does not return; it fails with EmptyCorpus.
C18_EmptyCorpusFails ==
  ~(SampleReturned /\ source_exists /\ ValidPositions = {})

\* ----------------------------------------------------- cache properties
\* The offset range [start_idx, start_idx + len(vectors)) of a write.
WriteRange(e) == {p \in 0..(2 * MaxTotal + MaxWriteLen) :
                   e.start_idx <= p /\ p < e.start_idx + Len(e.vectors)}

PairwiseDisjoint(log) ==
  \A j, k \in 1..Len(log) :
    j # k => WriteRange(log[j]) \cap WriteRange(log[k]) = {}

\* The stored contents after the writes of log, made in the order
\* order[1], order[2], ... on a fresh cache.
RECURSIVE Replay(_, _, _, _)
Replay(c, log, order, k) ==
  IF k > Len(log) THEN Stored(c)
  ELSE Replay(WriteBatch(c, log[order[k]].vectors, log[order[k]].ids,
                         log[order[k]].start_idx),
              log, order, k + 1)

\* C19: when the write_batch calls made on a cache have pairwise disjoint
\* offset ranges, the stored vectors and ids are those that every other
\* order of the same calls produces (forward and reverse offset order
\* among them).
C19_WriteOrderIrrelevant ==
  PairwiseDisjoint(vc_log) =>
    \A order \in Permutations(1..Len(vc_log)) :
      Replay(CreatedCache(Len(vc.vectors)), vc_log, order, 1) = Stored(vc)

\* Two full batches written in reverse offset order fill the cache.
C19_Witness ==
  /\ Len(vc_log) = 2
  /\ PairwiseDisjoint(vc_log)
  /\ vc_log[1].start_idx > vc_log[2].start_idx
  /\ \A k \in 1..2 : ~vc_log[k].raised /\ Len(vc_log[k].vectors) >= 1
  /\ \A p \in 1..Len(vc.vectors) :
       vc.vectors[p] # Unwritten /\ vc.ids[p] # NoId

\* C20 (as claimed): a write_batch whose range ends beyond total_vectors
\* is rejected and leaves the stored vectors and ids as they were.
C20_OutOfRangeRejected ==
  \A k \in 1..Len(vc_log) :
    vc_log[k].start_idx + Len(vc_log[k].vectors) > Len(vc_log[k].before.vectors)
      => vc_log[k].raised /\ vc_log[k].after = vc_log[k].before

\* C21 (as claimed): every operation made on a handle that is closed fails
\* and leaves the handle closed.
C21_ClosedHandleFails ==
  (/\ vc_last.op \in {"write_batch", "read_vectors", "read_ids",
                       "get_metadata", "get_info"}
   /\ ~vc_last.was_open)
    => vc_last.raised /\ ~vc.open

\* C29 (as claimed): after a write_batch of m vectors and m ids that lies
\* within the cache and did not raise, reading the range back returns the
\* vectors and the ids handed in, and the rows and ids outside the range
\* and the metadata are as before.
C29_WriteThenRead ==
  \A k \in 1..Len(vc_log) :
    LET e == vc_log[k]
        m == Len(e.vectors)
    IN  (/\ ~e.raised
         /\ Len(e.ids) = m
         /\ e.start_idx + m <= Len(e.before.vectors))
        => /\ ReadVectors(e.after, e.start_idx, e.start_idx + m) = e.vectors
           /\ ReadIds(e.after, e.start_idx, e.start_idx + m) = e.ids
           /\ \A p \in 1..Len(e.before.vectors) :
                (p <= e.start_idx \/ p > e.start_idx + m) =>
                  /\ e.after.vectors[p] = e.before.vectors[p]
                  /\ e.after.ids[p] = e.before.ids[p]
           /\ e.after.attrs = e.before.attrs

\* --------------------------------------------- full generation properties
\* The destination range of batch k of the generation, as 1-based rows.
GenRange(k) ==
  {p \in 1..Len(documents) :
     /\ (k - 1) * optimal_batch_size < p
     /\ p <= (k - 1) * optimal_batch_size + Len(GenBatchDocs(k))}

\* Row p of cache c holds the vector and the id of document p.
HoldsDocument(c, p) ==
  /\ c.vectors[p] = Embedding(documents[p].text)
  /\ DecodeId(c.ids[p]) = documents[p].id

\* C22 (as claimed): from the creation of the cache of a model to the end
\* of its full generation, however it ends, the destination ranges of the
\* batches are pairwise disjoint and cover exactly the rows of the cache,
\* and every row that has been written holds the vector and the id of the
\* document of that position.
C22_RangesPartitionAndHoldDocuments ==
  (bm_i >= 1 /\ model_state[bm_i] = "FullGeneration") =>
    /\ \A j, k \in 1..GenBatches : j # k => GenRange(j) \cap GenRange(k) = {}
    /\ UNION {GenRange(k) : k \in 1..GenBatches} = 1..Len(cache[bm_i].vectors)
    /\ \A p \in WrittenRows(cache[bm_i]) : HoldsDocument(cache[bm_i], p)

\* C23 (as claimed): in the asynchronous generation, while the request of
\* a batch is in flight, a later batch is waiting and a permit is free,
\* the request of the later batch can be issued.
C23_ConcurrentDispatch ==
  (/\ async_mode
   /\ bm_pc = "gen_wait"
   /\ gen_k < GenBatches
   /\ ~SemaphoreLocked(semaphore))
    => ENABLED GenIssue

\* C24 (as claimed): a model reaches Done only from a generation in which
\* no batch failed, and with every row of its cache holding the vector and
\* the id of the document of that row.
C24_DoneMeansComplete ==
  [][(/\ bm_i >= 1
      /\ bm_i' = bm_i
      /\ model_state[bm_i] # "Done"
      /\ model_state'[bm_i] = "Done")
       => /\ gen_failed = {}
          /\ \A p \in 1..Len(documents) : HoldsDocument(cache'[bm_i], p)]_vars

\* ------------------------------------------------ cancellation properties
\* The batches of the call under way whose task has returned None.
FailedTasks ==
  {j \in 1..Len(task_pc) : task_pc[j] = "done" /\ task_result[j].isNone}

\* C27 (as claimed): once a batch of an embed_concurrent call has failed,
\* no further request of that call is sent: no batch that is still
\* pending takes a permit and posts its request.
C27_NoRequestAfterFailure ==
  [][(ec_pc = "awaiting" /\ FailedTasks # {}) => acquires' = acquires]_vars

\* ------------------------------------------------- phase order properties
\* The models whose result record has been appended to self.results.
Recorded ==
  {m \in 1..Len(models) :
     \E k \in 1..Len(results) : results[k].model_name = models[m].name}

\* C25: per model the phases run in the order latency probe, throughput
\* sweep, full generation.  While the probe runs no throughput trial has
\* been made and the cache does not exist; the sweep and the generation
\* find the warm-up and every timed sample of the probe completed; the
\* cache exists only once the sweep has selected a measured batch size;
\* and a result is recorded only for a model whose cache has been closed.
C25_PhaseOrder ==
  /\ bm_i >= 1 =>
       /\ model_state[bm_i] = "LatencyProbe" =>
            /\ latencies = << >>
            /\ tested = << >>
            /\ throughput_metrics = << >>
            /\ tn_pc = "idle"
       /\ model_state[bm_i] \in {"LatencyProbe", "ThroughputSweep"} =>
            /\ ~cache[bm_i].created
            /\ optimal_batch_size = 0
            /\ gen_k = 0
            /\ semaphore = max_concurrent_requests
       /\ model_state[bm_i] \in {"ThroughputSweep", "FullGeneration"} =>
            probe_count = ProbeWarmup + ProbeSamples
       /\ model_state[bm_i] = "FullGeneration" =>
            /\ cache[bm_i].created
            /\ \E k \in 1..Len(throughput_metrics) :
                 throughput_metrics[k].size = optimal_batch_size
  /\ \A m \in 1..Len(models) :
       /\ cache[m].created => model_state[m] \in {"FullGeneration", "Done"}
       /\ m \in Recorded <=> model_state[m] = "Done"
       /\ m \in Recorded => cache[m].created /\ ~cache[m].open
       /\ m > bm_i => model_state[m] = "Queued"

\* A model has gone through the three phases: its result is recorded, and
\* its cache holds vectors and is closed.
C25_Witness ==
  \E m \in 1..Len(models) :
    /\ m \in Recorded
    /\ WrittenRows(cache[m]) # {}
    /\ ~cache[m].open
    /\ m < bm_i
    /\ model_state[bm_i] = "ThroughputSweep"

\* C26 (as claimed): the throughput sweep of a model always yields a batch
\* size (it does not end in an error), and the batch size the full
\* generation uses was measured in that sweep with a throughput no other
\* measured size exceeds.
C26_SweepYieldsBestMeasuredSize ==
  bm_i >= 1 =>
    /\ ~(bm_pc = "raised" /\ model_state[bm_i] = "ThroughputSweep")
    /\ model_state[bm_i] = "FullGeneration" =>
         \E k \in 1..Len(throughput_metrics) :
           /\ throughput_metrics[k].size = optimal_batch_size
           /\ \A j \in 1..Len(throughput_metrics) :
                ~Less(throughput_metrics[k].throughput,
                      throughput_metrics[j].throughput)

\* ------------------------------------------------- reservoir properties
\* The reservoir holds valid records only, each in one slot at most.
ValidReservoir(reservoir) ==
  /\ \A q \in 1..Len(reservoir) :
       /\ reservoir[q].id \in ValidPositions
       /\ reservoir[q].text = corpus[reservoir[q].id].text_len
  /\ \A q, r \in 1..Len(reservoir) :
       q # r => reservoir[q].id # reservoir[r].id

\* One iteration of the sampling loop, on the valid record of 0-based
\* index sm_i, as the claim describes it.
ReservoirStep ==
  LET doc == LoadCollectionIter(corpus)[sm_i + 1]
      key == << rng.seed, rng.calls >>
  IN  IF sm_i < num_samples
        THEN sampled' = Append(sampled, doc) /\ rng' = rng
        ELSE /\ rng'.calls = rng.calls + 1
             /\ key \in DOMAIN drawn'
             /\ LET j == RandInt(drawn'[key], sm_i)
                IN  /\ j \in 0..sm_i
                    /\ IF j < num_samples
                         THEN /\ sampled' = [sampled EXCEPT ![j + 1] = doc]
                              /\ sampled'[j + 1] = doc
                         ELSE sampled' = sampled

C28_SearchTerminates == <>(tn_pc = "returned")

====
